---- MODULE Spec2Model ----
(***************************************************************************)
(* A model of the resast AST data model (src/src/lib.rs, src/src/pat.rs):  *)
(* the node constructors, the derived structural equality, and the derived *)
(* serde adapter selected by the build features.                           *)
(***************************************************************************)
EXTENDS Integers, Sequences, FiniteSets, TLC

VARIABLES
    profile,    \* build profile: are integer overflow checks compiled in
    lhs, rhs,   \* the two most recent constructor calls, with what they returned
    panicked,   \* a constructor call panicked (the thread unwinds)
    features,   \* the cargo features the crate was built with
    node,       \* the node handed to the adapter
    doc,        \* the document the adapter holds
    out         \* the last decode result

vars == <<profile, lhs, rhs, panicked, features, node, doc, out>>

-----------------------------------------------------------------------------
(* u32, kept at its width as two 16-bit limbs.                             *)

Limb == 65536

U32(h, l) == [hi |-> h, lo |-> l]

U32Zero == U32(0, 0)

U32Max == U32(Limb - 1, Limb - 1)

\* x - 1 on u32: the wrapped value and whether the subtraction overflowed
U32SubOne(x) ==
    IF x.lo > 0 THEN [val |-> U32(x.hi, x.lo - 1), overflow |-> FALSE]
    ELSE IF x.hi > 0 THEN [val |-> U32(x.hi - 1, Limb - 1), overflow |-> FALSE]
    ELSE [val |-> U32Max, overflow |-> TRUE]

-----------------------------------------------------------------------------
(* Bounds and inputs.                                                       *)

MaxCoord == 1

MaxParts == 2

MaxLen == 3

Names == {"a", "foo"}

\* line / column arguments: 0..MaxCoord, the documented 5 and 10, 2^16, u32::MAX
PosInputs ==
    {U32(0, n) : n \in 0..MaxCoord} \cup {U32(0, 5), U32(0, 10), U32(1, 0), U32Max}

-----------------------------------------------------------------------------
(* SourcePos, SourceSpan, Cow<str>, Ident                                   *)

SourcePos(line, col) == [line |-> line, col |-> col]

SourceSpan(start, in_map) == [start |-> start, in_map |-> in_map]

\* #[derive(Default)]: u32 defaults to 0, bool to false
SourcePos_default == SourcePos(U32Zero, U32Zero)

SourceSpan_default == SourceSpan(SourcePos_default, FALSE)

SpanInputs ==
    {SourceSpan_default,
     SourceSpan(SourcePos(U32(0, 4), U32(0, 9)), TRUE),
     SourceSpan(SourcePos(U32(0, 1), U32Zero), FALSE)}

Cow_Owned(s) == [variant |-> "Owned", str |-> s]

Cow_Borrowed(s) == [variant |-> "Borrowed", str |-> s]

Ident(name, s_loc) == [name |-> name, s_loc |-> s_loc]

CowEqByVariant(a, b) == a.variant = b.variant /\ a.str = b.str

\* PartialEq of Cow<str> compares the dereferenced text, whichever variant holds it
CowEq(a, b) == a.str = b.str

SourcePosEq(a, b) == a.line = b.line /\ a.col = b.col

SourceSpanEq(a, b) == SourcePosEq(a.start, b.start) /\ a.in_map = b.in_map

\* #[derive(PartialEq)] on Ident: field by field
IdentEq(a, b) == CowEq(a.name, b.name) /\ SourceSpanEq(a.s_loc, b.s_loc)

Returned(v) == [ok |-> TRUE, val |-> v]

Panic == [ok |-> FALSE, val |-> "panic"]

Ident_newBorrowing(s, s_loc) == Returned(Ident(Cow_Borrowed(s), s_loc))

Ident_new(s, s_loc) == Returned(Ident(Cow_Owned(s), s_loc))

Ident_from_with_span(s, s_loc) == Returned(Ident(Cow_Borrowed(s), s_loc))

Ident_fromInMap(s) ==
    Returned(Ident(Cow_Borrowed(s), SourceSpan(SourcePos_default, TRUE)))

Ident_from(s) == Returned(Ident(Cow_Borrowed(s), SourceSpan_default))

Ident_from_with_posNoAdjust(s, line, column, checks) ==
    Returned(Ident(Cow_Borrowed(s), SourceSpan(SourcePos(line, column), TRUE)))

\* line - 1 and column - 1 are plain u32 subtractions: with overflow checks
\* compiled in they panic on 0, without them they wrap
Ident_from_with_pos(s, line, column, checks) ==
    LET l == U32SubOne(line)
        c == U32SubOne(column)
    IN  IF checks /\ (l.overflow \/ c.overflow)
        THEN Panic
        ELSE Returned(Ident(Cow_Borrowed(s),
                            SourceSpan(SourcePos(l.val, c.val), TRUE)))

Pat_Ident(i) == [variant |-> "Ident", ident |-> i]

Pat_ident_from(s) == Returned(Pat_Ident(Ident_from(s).val))

Pat_ident_from_with_span(s, s_loc) ==
    Returned(Pat_Ident(Ident_from_with_span(s, s_loc).val))

-----------------------------------------------------------------------------
(* Constructor calls.                                                       *)

NoCall == [fn |-> "none"]

Call(fn, s, line, column, s_loc, r) ==
    [fn |-> fn, s |-> s, line |-> line, column |-> column, s_loc |-> s_loc,
     ret |-> r.val]

\* the producer keeps the two nodes built last: the new one lands in rhs and
\* the one rhs held moves to lhs; a panic unwinds and ends the run
Finish(fn, s, line, column, s_loc, r) ==
    /\ ~panicked
    /\ IF r.ok
       THEN /\ panicked' = FALSE
            /\ lhs' = rhs
            /\ rhs' = Call(fn, s, line, column, s_loc, r)
       ELSE panicked' = TRUE /\ UNCHANGED <<lhs, rhs>>
    /\ UNCHANGED <<profile, features, node, doc, out>>

CallIdentNew ==
    \E s \in Names, sp \in SpanInputs :
        Finish("Ident::new", s, U32Zero, U32Zero, sp, Ident_new(s, sp))

CallIdentFromWithSpan ==
    \E s \in Names, sp \in SpanInputs :
        Finish("Ident::from_with_span", s, U32Zero, U32Zero, sp,
               Ident_from_with_span(s, sp))

CallIdentFrom ==
    \E s \in Names :
        Finish("Ident::from", s, U32Zero, U32Zero, SourceSpan_default,
               Ident_from(s))

CallIdentFromWithPos ==
    \E s \in Names, line \in PosInputs, column \in PosInputs :
        Finish("Ident::from_with_pos", s, line, column, SourceSpan_default,
               Ident_from_with_pos(s, line, column, profile.overflow_checks))

CallPatIdentFrom ==
    \E s \in Names :
        Finish("Pat::ident_from", s, U32Zero, U32Zero, SourceSpan_default,
               Pat_ident_from(s))

CallPatIdentFromWithSpan ==
    \E s \in Names, sp \in SpanInputs :
        Finish("Pat::ident_from_with_span", s, U32Zero, U32Zero, sp,
               Pat_ident_from_with_span(s, sp))

NoFeatures == [serde |-> FALSE, esprima |-> FALSE, serialization |-> FALSE]

\* nothing held yet: no node, no document, no decode result
NoNode == [ty |-> "none"]

NoDoc == [k |-> "none"]

NoOut == [ty |-> "none"]

Init ==
    /\ profile \in {[overflow_checks |-> b] : b \in BOOLEAN}
    /\ lhs = NoCall
    /\ rhs = NoCall
    /\ panicked = FALSE
    /\ features = NoFeatures
    /\ node = NoNode
    /\ doc = NoDoc
    /\ out = NoOut

Next ==
    \/ CallIdentNew
    \/ CallIdentFromWithSpan
    \/ CallIdentFrom
    \/ CallIdentFromWithPos
    \/ CallPatIdentFrom
    \/ CallPatIdentFromWithSpan

Spec == Init /\ [][Next]_vars

-----------------------------------------------------------------------------
(* Program and ProgramPart.  Lit, Decl and Stmt are declared in modules     *)
(* outside these two files; their values are opaque tokens here.            *)

Dir(expr, dir) == [expr |-> expr, dir |-> dir]

ProgramPart_Dir(d) == [variant |-> "Dir", dir |-> d]

ProgramPart_decl(inner) == [variant |-> "Decl", decl |-> inner]

ProgramPart_stmt(inner) == [variant |-> "Stmt", stmt |-> inner]

PartInputs ==
    {ProgramPart_Dir(Dir("'use strict'", Cow_Borrowed("use strict"))),
     ProgramPart_decl("let x"),
     ProgramPart_stmt("x()")}

SeqsUpTo(S, n) == UNION {[1..k -> S] : k \in 0..n}

PartsInputs == SeqsUpTo(PartInputs, MaxParts)

Program_Mod(parts) == [variant |-> "Mod", parts |-> parts]

Program_Script(parts) == [variant |-> "Script", parts |-> parts]

Program_module(parts) == Program_Mod(parts)

Program_scriptAsMod(parts) == Program_Mod(parts)

Program_script(parts) == Program_Script(parts)

DirEq(a, b) == a.expr = b.expr /\ CowEq(a.dir, b.dir)

\* #[derive(PartialEq)] on an enum: same variant, equal payloads
ProgramPartEq(a, b) ==
    /\ a.variant = b.variant
    /\ a.variant = "Dir" => DirEq(a.dir, b.dir)
    /\ a.variant = "Decl" => a.decl = b.decl
    /\ a.variant = "Stmt" => a.stmt = b.stmt

\* PartialEq of Vec: same length, equal element by element
PartsEq(a, b) ==
    /\ Len(a) = Len(b)
    /\ \A i \in 1..Len(a) : ProgramPartEq(a[i], b[i])

ProgramEq(a, b) == a.variant = b.variant /\ PartsEq(a.parts, b.parts)

ProgramCall(fn, parts, r) == [fn |-> fn, parts |-> parts, ret |-> r]

FinishProgram(fn, parts, r) ==
    /\ lhs' = rhs
    /\ rhs' = ProgramCall(fn, parts, r)
    /\ UNCHANGED <<profile, panicked, features, node, doc, out>>

CallProgramModule ==
    \E parts \in PartsInputs :
        FinishProgram("Program::module", parts, Program_module(parts))

CallProgramScript ==
    \E parts \in PartsInputs :
        FinishProgram("Program::script", parts, Program_script(parts))

NextProgram == CallProgramModule \/ CallProgramScript

SpecProgram == Init /\ [][NextProgram]_vars

-----------------------------------------------------------------------------
(* Build features and the serde impls each type's attributes derive.        *)

FeatureSets == [serde : BOOLEAN, esprima : BOOLEAN, serialization : BOOLEAN]

NodeTypes ==
    {"SourcePos", "SourceSpan", "Ident", "Program", "ProgramPart", "Dir", "Func",
     "FuncArg", "FuncBody", "Class", "ClassBody", "VarKind", "AssignOp",
     "LogicalOp", "BinaryOp", "UpdateOp", "UnaryOp", "PropKind", "Pat",
     "ArrayPatPart", "ObjPatPart", "AssignPat"}

\* the types whose derive is gated on feature = "serialization"
SerializationGated == {"Func", "Class", "ArrayPatPart", "ObjPatPart"}

\* the types that carry cfg_attr(all(serde, esprima), serde(untagged))
UntaggedDeclared ==
    {"ProgramPart", "FuncArg", "VarKind", "Pat", "ArrayPatPart", "ObjPatPart"}

DerivesSerialize(ty, f) ==
    IF ty \in SerializationGated THEN f.serialization ELSE f.serde /\ ~f.esprima

DerivesDeserialize(ty, f) ==
    IF ty \in SerializationGated THEN f.serialization ELSE f.serde

UntaggedAttr(ty, f) == ty \in UntaggedDeclared /\ f.serde /\ f.esprima

\* the node types of these files that a value of the type holds, directly or not
Contains(ty) ==
    CASE ty = "SourceSpan" -> {"SourcePos"}
      [] ty = "Ident" -> {"SourceSpan", "SourcePos"}
      [] ty \in {"Pat", "ArrayPatPart", "ObjPatPart", "AssignPat"} ->
            {"Pat", "ArrayPatPart", "ObjPatPart", "AssignPat", "Ident",
             "SourceSpan", "SourcePos"}
      [] ty \in {"Program", "ProgramPart", "Dir", "Func", "FuncArg", "FuncBody",
                 "Class", "ClassBody"} -> NodeTypes
      [] OTHER -> {}

\* a derived impl needs the impls of everything its type holds; under esprima
\* the crate's own serde module supplies Serialize
MissingImpls(f) ==
    {tc \in NodeTypes \X NodeTypes :
        /\ tc[2] \in Contains(tc[1])
        /\ \/ DerivesDeserialize(tc[1], f) /\ ~DerivesDeserialize(tc[2], f)
           \/ /\ DerivesSerialize(tc[1], f)
              /\ ~DerivesSerialize(tc[2], f)
              /\ ~f.esprima}

\* a serde attribute on a type that derives no serde impl is rejected
StrayAttrs(f) ==
    {ty \in NodeTypes :
        /\ UntaggedAttr(ty, f)
        /\ ~DerivesDeserialize(ty, f)
        /\ ~DerivesSerialize(ty, f)}

Builds(f) == MissingImpls(f) = {} /\ StrayAttrs(f) = {}

CanSerialize(ty, f) == Builds(f) /\ DerivesSerialize(ty, f)

CanDeserialize(ty, f) == Builds(f) /\ DerivesDeserialize(ty, f)

-----------------------------------------------------------------------------
(* Pattern values.  Expr and Prop are declared in a module outside these    *)
(* two files; an identifier expression and a bare property stand for them.  *)

None == [some |-> FALSE]

Some(x) == [some |-> TRUE, val |-> x]

Expr_Ident(i) == [variant |-> "Ident", ident |-> i]

Prop(kind) == [kind |-> kind]

Pat_Obj(parts) == [variant |-> "Obj", parts |-> parts]

Pat_Array(elems) == [variant |-> "Array", elems |-> elems]

Pat_RestElement(p) == [variant |-> "RestElement", arg |-> p]

AssignPat(left, right) == [left |-> left, right |-> right]

Pat_Assign(a) == [variant |-> "Assign", assign |-> a]

ArrayPatPart_Pat(p) == [variant |-> "Pat", pat |-> p]

ArrayPatPart_Expr(e) == [variant |-> "Expr", expr |-> e]

ObjPatPart_Assign(prop) == [variant |-> "Assign", prop |-> prop]

ObjPatPart_Rest(p) == [variant |-> "Rest", pat |-> p]

IdentInputs ==
    {Ident_from("a").val,
     Ident_from_with_pos("foo", U32(0, 5), U32(0, 10), TRUE).val}

ExprInputs == {Expr_Ident(Ident_from("a").val)}

PropInputs == {Prop("Init")}

LeafPats == {Pat_Ident(i) : i \in IdentInputs}

ArrayElemInputs ==
    {None} \cup {Some(ArrayPatPart_Pat(p)) : p \in LeafPats}
           \cup {Some(ArrayPatPart_Expr(e)) : e \in ExprInputs}

ObjPartInputs ==
    {ObjPatPart_Rest(p) : p \in LeafPats}
        \cup {ObjPatPart_Assign(pr) : pr \in PropInputs}

PatInputs ==
    LeafPats
        \cup {Pat_RestElement(p) : p \in LeafPats}
        \cup {Pat_Array(es) : es \in SeqsUpTo(ArrayElemInputs, MaxLen)}
        \cup {Pat_Obj(ps) : ps \in SeqsUpTo(ObjPartInputs, MaxParts)}
        \cup {Pat_Assign(AssignPat(p, e)) : p \in LeafPats, e \in ExprInputs}

VarKinds == {"Var", "Let", "Const"}

ExprEq(a, b) == a.variant = b.variant /\ IdentEq(a.ident, b.ident)

RECURSIVE PatEq(_, _)

ArrayPatPartEq(a, b) ==
    /\ a.variant = b.variant
    /\ a.variant = "Pat" => PatEq(a.pat, b.pat)
    /\ a.variant = "Expr" => ExprEq(a.expr, b.expr)

\* PartialEq of Option: both None, or both Some with equal payloads
OptArrayPatPartEq(a, b) ==
    /\ a.some = b.some
    /\ a.some => ArrayPatPartEq(a.val, b.val)

ObjPatPartEq(a, b) ==
    /\ a.variant = b.variant
    /\ a.variant = "Assign" => a.prop = b.prop
    /\ a.variant = "Rest" => PatEq(a.pat, b.pat)

\* #[derive(PartialEq)] on Pat
PatEq(a, b) ==
    /\ a.variant = b.variant
    /\ a.variant = "Ident" => IdentEq(a.ident, b.ident)
    /\ a.variant = "Obj" =>
           /\ Len(a.parts) = Len(b.parts)
           /\ \A i \in 1..Len(a.parts) : ObjPatPartEq(a.parts[i], b.parts[i])
    /\ a.variant = "Array" =>
           /\ Len(a.elems) = Len(b.elems)
           /\ \A i \in 1..Len(a.elems) : OptArrayPatPartEq(a.elems[i], b.elems[i])
    /\ a.variant = "RestElement" => PatEq(a.arg, b.arg)
    /\ a.variant = "Assign" =>
           /\ PatEq(a.assign.left, b.assign.left)
           /\ ExprEq(a.assign.right, b.assign.right)

-----------------------------------------------------------------------------
(* Documents: the JSON-like data model the adapter writes and reads.        *)

DNull == [k |-> "null"]

DStr(s) == [k |-> "str", str |-> s]

DNum(n) == [k |-> "num", num |-> n]

DBool(b) == [k |-> "bool", bool |-> b]

DSeq(items) == [k |-> "seq", items |-> items]

DMap(fields) == [k |-> "map", fields |-> fields]

\* an externally tagged newtype variant: {"Variant": content}
Tagged(tag, d) == DMap(tag :> d)

(* Serialize, as derived when serde is on and esprima is off: structs are   *)
(* maps of their fields, enum variants are externally tagged, None is null. *)

EncSourcePos(p) == DMap([line |-> DNum(p.line), col |-> DNum(p.col)])

EncSourceSpan(s) ==
    DMap([start |-> EncSourcePos(s.start), in_map |-> DBool(s.in_map)])

EncIdent(i) == DMap([name |-> DStr(i.name.str), s_loc |-> EncSourceSpan(i.s_loc)])

EncExpr(e) == Tagged("Ident", EncIdent(e.ident))

EncProp(pr) == DMap([kind |-> DStr(pr.kind)])

EncVarKind(v) == DStr(v)

RECURSIVE EncPat(_)

EncArrayPatPart(a) ==
    IF a.variant = "Pat" THEN Tagged("Pat", EncPat(a.pat))
    ELSE Tagged("Expr", EncExpr(a.expr))

EncObjPatPart(o) ==
    IF o.variant = "Assign" THEN Tagged("Assign", EncProp(o.prop))
    ELSE Tagged("Rest", EncPat(o.pat))

EncOptArrayPatPart(o) == IF o.some THEN EncArrayPatPart(o.val) ELSE DNull

IsSome(o) == o.some

EncArrayElemsSkippingNone(elems) ==
    LET kept == SelectSeq(elems, IsSome)
    IN  [i \in 1..Len(kept) |-> EncArrayPatPart(kept[i].val)]

\* Vec<Option<ArrayPatPart>>: one item per slot, in order
EncArrayElems(elems) == [i \in 1..Len(elems) |-> EncOptArrayPatPart(elems[i])]

EncPat(p) ==
    CASE p.variant = "Ident" -> Tagged("Ident", EncIdent(p.ident))
      [] p.variant = "Obj" ->
            Tagged("Obj", DSeq([i \in 1..Len(p.parts) |-> EncObjPatPart(p.parts[i])]))
      [] p.variant = "Array" -> Tagged("Array", DSeq(EncArrayElems(p.elems)))
      [] p.variant = "RestElement" -> Tagged("RestElement", EncPat(p.arg))
      [] p.variant = "Assign" ->
            Tagged("Assign", DMap([left |-> EncPat(p.assign.left),
                                   right |-> EncExpr(p.assign.right)]))

(* The document forms of the external-schema mode (serde and esprima on).  *)
(* The crate's own serde module, compiled under esprima, is not among these *)
(* files: the forms follow the specification: unions are untagged, VarKind  *)
(* is its lower-case keyword.                                               *)

Keyword(v) ==
    CASE v = "Var" -> "var"
      [] v = "Let" -> "let"
      [] v = "Const" -> "const"

EsprimaVarKind(v) == DStr(Keyword(v))

EsprimaExpr(e) == EncIdent(e.ident)

RECURSIVE EsprimaPat(_)

EsprimaArrayPatPart(a) ==
    IF a.variant = "Pat" THEN EsprimaPat(a.pat) ELSE EsprimaExpr(a.expr)

EsprimaObjPatPart(o) ==
    IF o.variant = "Assign" THEN EncProp(o.prop) ELSE EsprimaPat(o.pat)

EsprimaPat(p) ==
    CASE p.variant = "Ident" -> EncIdent(p.ident)
      [] p.variant = "Obj" ->
            DSeq([i \in 1..Len(p.parts) |-> EsprimaObjPatPart(p.parts[i])])
      [] p.variant = "Array" ->
            DSeq([i \in 1..Len(p.elems) |->
                     IF p.elems[i].some THEN EsprimaArrayPatPart(p.elems[i].val)
                     ELSE DNull])
      [] p.variant = "RestElement" -> EsprimaPat(p.arg)
      [] p.variant = "Assign" ->
            DMap([left |-> EsprimaPat(p.assign.left),
                  right |-> EsprimaExpr(p.assign.right)])

-----------------------------------------------------------------------------
(* Deserialize, as derived.                                                 *)

\* the call stack a decode may use, in nested Pat::deserialize frames
StackDepth == 4

Ok(v) == [r |-> "ok", val |-> v]

Err == [r |-> "err"]

\* the recursion ran out of stack: the process aborts, no error is returned
Overflow == [r |-> "overflow"]

\* a sequence of element results: all values, or the first failure met
Collect(rs) ==
    IF \A i \in 1..Len(rs) : rs[i].r = "ok"
    THEN Ok([i \in 1..Len(rs) |-> rs[i].val])
    ELSE rs[CHOOSE i \in 1..Len(rs) :
                rs[i].r # "ok" /\ \A j \in 1..(i - 1) : rs[j].r = "ok"]

\* a derived struct reads a map holding its fields (others are ignored) or a
\* sequence of exactly its fields in order
IsStruct(d, names) ==
    \/ d.k = "map" /\ \A i \in 1..Len(names) : names[i] \in DOMAIN d.fields
    \/ d.k = "seq" /\ Len(d.items) = Len(names)

Field(d, names, i) == IF d.k = "map" THEN d.fields[names[i]] ELSE d.items[i]

DecU32(d) == IF d.k = "num" THEN Ok(d.num) ELSE Err

DecBool(d) == IF d.k = "bool" THEN Ok(d.bool) ELSE Err

\* Cow<str> without serde(borrow) always reads into the owning variant
DecCowStr(d) == IF d.k = "str" THEN Ok(Cow_Owned(d.str)) ELSE Err

DecSourcePos(d) ==
    LET names == <<"line", "col">>
    IN  IF ~IsStruct(d, names) THEN Err
        ELSE LET l == DecU32(Field(d, names, 1))
                 c == DecU32(Field(d, names, 2))
             IN  IF l.r = "ok" /\ c.r = "ok" THEN Ok(SourcePos(l.val, c.val)) ELSE Err

DecSourceSpan(d) ==
    LET names == <<"start", "in_map">>
    IN  IF ~IsStruct(d, names) THEN Err
        ELSE LET s == DecSourcePos(Field(d, names, 1))
                 m == DecBool(Field(d, names, 2))
             IN  IF s.r = "ok" /\ m.r = "ok" THEN Ok(SourceSpan(s.val, m.val)) ELSE Err

DecIdent(d) ==
    LET names == <<"name", "s_loc">>
    IN  IF ~IsStruct(d, names) THEN Err
        ELSE LET n == DecCowStr(Field(d, names, 1))
                 s == DecSourceSpan(Field(d, names, 2))
             IN  IF n.r = "ok" /\ s.r = "ok" THEN Ok(Ident(n.val, s.val)) ELSE Err

\* an externally tagged variant is a map of exactly one key, the variant's name
IsTagged(d) == d.k = "map" /\ Cardinality(DOMAIN d.fields) = 1

TagOf(d) == CHOOSE tag \in DOMAIN d.fields : TRUE

\* the value a variant constructor makes of a payload
Make(ctor, v) ==
    CASE ctor = "Pat::Ident" -> Pat_Ident(v)
      [] ctor = "Pat::Obj" -> Pat_Obj(v)
      [] ctor = "Pat::Array" -> Pat_Array(v)
      [] ctor = "Pat::RestElement" -> Pat_RestElement(v)
      [] ctor = "Pat::Assign" -> Pat_Assign(v)
      [] ctor = "ArrayPatPart::Pat" -> ArrayPatPart_Pat(v)
      [] ctor = "ArrayPatPart::Expr" -> ArrayPatPart_Expr(v)
      [] ctor = "ObjPatPart::Assign" -> ObjPatPart_Assign(v)
      [] ctor = "ObjPatPart::Rest" -> ObjPatPart_Rest(v)
      [] ctor = "Expr::Ident" -> Expr_Ident(v)
      [] ctor = "Some" -> Some(v)

\* ok results are wrapped by the constructor, failures pass unchanged
Then(res, ctor) == IF res.r = "ok" THEN Ok(Make(ctor, res.val)) ELSE res

DecExpr(d, f) ==
    IF f.serde /\ f.esprima
    THEN Then(DecIdent(d), "Expr::Ident")
    ELSE IF IsTagged(d) /\ TagOf(d) = "Ident"
         THEN Then(DecIdent(d.fields["Ident"]), "Expr::Ident")
         ELSE Err

DecProp(d) ==
    IF IsStruct(d, <<"kind">>) /\ Field(d, <<"kind">>, 1).k = "str"
    THEN Ok(Prop(Field(d, <<"kind">>, 1).str))
    ELSE Err

\* tagged: a unit variant is read from its name.  untagged: the variants are
\* tried in order and a unit variant matches only the unit value (null), so
\* rename_all has nothing to rename and every null reads as the first variant
DecVarKind(d, f) ==
    IF UntaggedAttr("VarKind", f)
    THEN IF d.k = "null" THEN Ok("Var") ELSE Err
    ELSE IF d.k = "str" /\ d.str \in VarKinds THEN Ok(d.str) ELSE Err

RECURSIVE DecPat(_, _, _)

\* untagged: Pat is tried first, Expr only after Pat returned an error
DecArrayPatPart(d, f, depth) ==
    IF UntaggedAttr("ArrayPatPart", f)
    THEN LET p == DecPat(d, f, depth)
         IN  IF p.r # "err" THEN Then(p, "ArrayPatPart::Pat")
             ELSE Then(DecExpr(d, f), "ArrayPatPart::Expr")
    ELSE IF ~IsTagged(d) THEN Err
         ELSE CASE TagOf(d) = "Pat" ->
                       Then(DecPat(d.fields["Pat"], f, depth), "ArrayPatPart::Pat")
                [] TagOf(d) = "Expr" ->
                       Then(DecExpr(d.fields["Expr"], f), "ArrayPatPart::Expr")
                [] OTHER -> Err

\* Option reads null as None and anything else as Some of the payload
DecOptArrayPatPart(d, f, depth) ==
    IF d.k = "null" THEN Ok(None) ELSE Then(DecArrayPatPart(d, f, depth), "Some")

DecObjPatPart(d, f, depth) ==
    IF UntaggedAttr("ObjPatPart", f)
    THEN LET a == DecProp(d)
         IN  IF a.r = "ok" THEN Then(a, "ObjPatPart::Assign")
             ELSE Then(DecPat(d, f, depth), "ObjPatPart::Rest")
    ELSE IF ~IsTagged(d) THEN Err
         ELSE CASE TagOf(d) = "Assign" ->
                       Then(DecProp(d.fields["Assign"]), "ObjPatPart::Assign")
                [] TagOf(d) = "Rest" ->
                       Then(DecPat(d.fields["Rest"], f, depth), "ObjPatPart::Rest")
                [] OTHER -> Err

DecObjPat(d, f, depth) ==
    IF d.k # "seq" THEN Err
    ELSE Collect([i \in 1..Len(d.items) |-> DecObjPatPart(d.items[i], f, depth)])

DecArrayElems(d, f, depth) ==
    IF d.k # "seq" THEN Err
    ELSE Collect([i \in 1..Len(d.items) |-> DecOptArrayPatPart(d.items[i], f, depth)])

DecAssignPat(d, f, depth) ==
    LET names == <<"left", "right">>
    IN  IF ~IsStruct(d, names) THEN Err
        ELSE LET l == DecPat(Field(d, names, 1), f, depth)
             IN  IF l.r # "ok" THEN l
                 ELSE LET e == DecExpr(Field(d, names, 2), f)
                      IN  IF e.r = "ok" THEN Ok(AssignPat(l.val, e.val)) ELSE Err

\* Pat::deserialize with depth stack frames left.  Tagged: the one key names
\* the variant.  Untagged: the variants are tried in declaration order on the
\* same buffered document and the first that reads it wins; RestElement holds
\* a Pat and so re-enters Pat::deserialize on the very same document.
DecPat(d, f, depth) ==
    IF depth = 0 THEN Overflow
    ELSE IF UntaggedAttr("Pat", f)
    THEN LET i == DecIdent(d)
             o == DecObjPat(d, f, depth - 1)
             a == DecArrayElems(d, f, depth - 1)
             r == DecPat(d, f, depth - 1)
             s == DecAssignPat(d, f, depth - 1)
         IN  IF i.r = "ok" THEN Then(i, "Pat::Ident")
             ELSE IF o.r # "err" THEN Then(o, "Pat::Obj")
             ELSE IF a.r # "err" THEN Then(a, "Pat::Array")
             ELSE IF r.r # "err" THEN Then(r, "Pat::RestElement")
             ELSE IF s.r # "err" THEN Then(s, "Pat::Assign")
             ELSE Err
    ELSE IF ~IsTagged(d) THEN Err
         ELSE CASE TagOf(d) = "Ident" -> Then(DecIdent(d.fields["Ident"]), "Pat::Ident")
                [] TagOf(d) = "Obj" ->
                       Then(DecObjPat(d.fields["Obj"], f, depth - 1), "Pat::Obj")
                [] TagOf(d) = "Array" ->
                       Then(DecArrayElems(d.fields["Array"], f, depth - 1), "Pat::Array")
                [] TagOf(d) = "RestElement" ->
                       Then(DecPat(d.fields["RestElement"], f, depth - 1), "Pat::RestElement")
                [] TagOf(d) = "Assign" ->
                       Then(DecAssignPat(d.fields["Assign"], f, depth - 1), "Pat::Assign")
                [] OTHER -> Err

-----------------------------------------------------------------------------
(* The adapter at work: a node is built, serialized, and a document is read *)
(* back; documents also arrive from outside.                                *)

TypedNode(ty, v) == [ty |-> ty, val |-> v]

BuildVarKind ==
    /\ \E v \in VarKinds : node' = TypedNode("VarKind", v)
    /\ doc' = NoDoc
    /\ out' = NoOut
    /\ UNCHANGED <<profile, lhs, rhs, panicked, features>>

BuildPat ==
    /\ \E p \in PatInputs : node' = TypedNode("Pat", p)
    /\ doc' = NoDoc
    /\ out' = NoOut
    /\ UNCHANGED <<profile, lhs, rhs, panicked, features>>

\* the derived Serialize
Serialize ==
    /\ node.ty # "none"
    /\ CanSerialize(node.ty, features)
    /\ doc' = IF node.ty = "VarKind" THEN EncVarKind(node.val) ELSE EncPat(node.val)
    /\ out' = NoOut
    /\ UNCHANGED <<profile, lhs, rhs, panicked, features, node>>

\* the hand-written Serialize of the external-schema mode
SerializeEsprima ==
    /\ node.ty # "none"
    /\ features.serde /\ features.esprima
    /\ Builds(features)
    /\ doc' = IF node.ty = "VarKind" THEN EsprimaVarKind(node.val)
              ELSE EsprimaPat(node.val)
    /\ out' = NoOut
    /\ UNCHANGED <<profile, lhs, rhs, panicked, features, node>>

ExternalDocs == {DNull} \cup {DStr(Keyword(v)) : v \in VarKinds}

ReceiveDoc ==
    /\ Builds(features) /\ features.serde
    /\ \E d \in ExternalDocs : doc' = d
    /\ node' = NoNode
    /\ out' = NoOut
    /\ UNCHANGED <<profile, lhs, rhs, panicked, features>>

\* the derived Deserialize, reading the held document as a node of type ty
Deserialize ==
    /\ doc # NoDoc
    /\ \E ty \in {"VarKind", "Pat"} :
          /\ node.ty # "none" => ty = node.ty
          /\ CanDeserialize(ty, features)
          /\ out' = [ty |-> ty,
                     res |-> IF ty = "VarKind" THEN DecVarKind(doc, features)
                             ELSE DecPat(doc, features, StackDepth)]
    /\ UNCHANGED <<profile, lhs, rhs, panicked, features, node, doc>>

InitSerde ==
    /\ profile = [overflow_checks |-> TRUE]
    /\ lhs = NoCall
    /\ rhs = NoCall
    /\ panicked = FALSE
    /\ features \in FeatureSets
    /\ node = NoNode
    /\ doc = NoDoc
    /\ out = NoOut

NextSerde ==
    \/ BuildVarKind
    \/ BuildPat
    \/ Serialize
    \/ SerializeEsprima
    \/ ReceiveDoc
    \/ Deserialize

SpecSerde == InitSerde /\ [][NextSerde]_vars

-----------------------------------------------------------------------------
(* Claims about the constructors.                                           *)

\* x + 1 on u32 (x below u32::MAX), used to state results independently of U32SubOne
U32Succ(x) == IF x.lo < Limb - 1 THEN U32(x.hi, x.lo + 1) ELSE U32(x.hi + 1, 0)

FromWithPosAdjusted(c) ==
    (c.fn = "Ident::from_with_pos" /\ c.line # U32Zero /\ c.column # U32Zero)
        => /\ c.ret.name.str = c.s
           /\ c.ret.s_loc.in_map = TRUE
           /\ c.ret.s_loc.start.line # U32Max
           /\ c.ret.s_loc.start.col # U32Max
           /\ U32Succ(c.ret.s_loc.start.line) = c.line
           /\ U32Succ(c.ret.s_loc.start.col) = c.column

\* C1: for line >= 1 and col >= 1, Ident::from_with_pos(s, line, col) returns
\* an Ident named s whose span starts at (line - 1, col - 1) with in_map true.
C1_FromWithPosAdjusts == FromWithPosAdjusted(lhs) /\ FromWithPosAdjusted(rhs)

\* the spec's example: line 5, col 10 is stored as line 4, col 9, in_map true
C1_Witness ==
    /\ lhs.fn = "Ident::from_with_pos"
    /\ lhs.line = U32(0, 5)
    /\ lhs.column = U32(0, 10)
    /\ lhs.ret.s_loc = SourceSpan(SourcePos(U32(0, 4), U32(0, 9)), TRUE)
    /\ rhs.fn = "Ident::from_with_pos"
    /\ rhs.line = U32(1, 0)
    /\ rhs.ret.s_loc.start.line = U32(0, Limb - 1)

\* C2: Ident::from_with_pos never panics, whatever u32 line and col it is
\* given, line = 0 and col = 0 included.
C2_NeverPanics == panicked = FALSE

\* C3: an Ident built by Ident::new from an owned String equals the Ident built
\* by Ident::from_with_span from a borrowed slice of the same text and span.
C3_EqualityIgnoresRepresentation ==
    (/\ lhs.fn = "Ident::new"
     /\ rhs.fn = "Ident::from_with_span"
     /\ lhs.s = rhs.s
     /\ lhs.s_loc = rhs.s_loc)
        => IdentEq(lhs.ret, rhs.ret) /\ IdentEq(rhs.ret, lhs.ret)

C3_Witness ==
    /\ lhs.fn = "Ident::new"
    /\ rhs.fn = "Ident::from_with_span"
    /\ lhs.s = "foo"
    /\ rhs.s = "foo"
    /\ lhs.s_loc = rhs.s_loc
    /\ lhs.ret.name.variant = "Owned"
    /\ rhs.ret.name.variant = "Borrowed"
    /\ IdentEq(lhs.ret, rhs.ret)

BorrowingIdentCtors ==
    {"Ident::from", "Ident::from_with_span", "Ident::from_with_pos"}

BorrowingPatCtors == {"Pat::ident_from", "Pat::ident_from_with_span"}

VariantFixedByPath(c) ==
    /\ c.fn = "Ident::new" => c.ret.name = Cow_Owned(c.s)
    /\ c.fn \in BorrowingIdentCtors => c.ret.name = Cow_Borrowed(c.s)
    /\ c.fn \in BorrowingPatCtors =>
           c.ret.variant = "Ident" /\ c.ret.ident.name = Cow_Borrowed(c.s)

\* C4: Ident::new always yields the owning variant of name, and every
\* constructor taking a borrowed slice always yields the borrowing variant.
C4_VariantFixedByPath == VariantFixedByPath(lhs) /\ VariantFixedByPath(rhs)

C4_Witness ==
    /\ lhs.fn = "Ident::new"
    /\ lhs.ret.name.variant = "Owned"
    /\ rhs.fn = "Pat::ident_from_with_span"
    /\ rhs.ret.ident.name.variant = "Borrowed"

FromHasDefaultSpan(c) ==
    c.fn = "Ident::from"
        => /\ c.ret.name.str = c.s
           /\ c.ret.s_loc.start.line = U32Zero
           /\ c.ret.s_loc.start.col = U32Zero
           /\ c.ret.s_loc.in_map = FALSE

\* C6: Ident::from(s) returns an Ident named s whose span is the zero span:
\* line 0, col 0, in_map false.
C6_FromHasDefaultSpan == FromHasDefaultSpan(lhs) /\ FromHasDefaultSpan(rhs)

C6_Witness ==
    /\ lhs.fn = "Ident::from"
    /\ lhs.s = "foo"
    /\ lhs.ret.s_loc.in_map = FALSE
    /\ rhs.fn = "Ident::from"

HoldsParts(c) ==
    /\ c.fn = "Program::module" =>
           c.ret.variant = "Mod" /\ c.ret.parts = c.parts
    /\ c.fn = "Program::script" =>
           c.ret.variant = "Script" /\ c.ret.parts = c.parts

\* C5: for every sequence parts, the empty one included, Program::module(parts)
\* and Program::script(parts) are unequal, and each holds exactly parts in the
\* original order.
C5_ModuleScriptDiffer ==
    /\ HoldsParts(lhs)
    /\ HoldsParts(rhs)
    /\ (/\ lhs.fn = "Program::module"
        /\ rhs.fn = "Program::script"
        /\ lhs.parts = rhs.parts)
           => ~ProgramEq(lhs.ret, rhs.ret) /\ ~ProgramEq(rhs.ret, lhs.ret)

C5_Witness ==
    /\ lhs.fn = "Program::module"
    /\ rhs.fn = "Program::script"
    /\ lhs.parts = <<ProgramPart_stmt("x()"), ProgramPart_decl("let x")>>
    /\ rhs.parts = lhs.parts
    /\ lhs.ret.parts[1].variant = "Stmt"
    /\ PartsEq(lhs.ret.parts, rhs.ret.parts)
    /\ ~ProgramEq(lhs.ret, rhs.ret)

-----------------------------------------------------------------------------
(* Claims about the adapter.                                                *)

EsprimaMode == features.serde /\ features.esprima

TwoWayMode == features.serde /\ ~features.esprima

\* C7: in the serde + esprima mode VarKind maps 1:1 to "var", "let", "const":
\* each variant is written as its keyword and each keyword is read back as its
\* own variant.
C7_VarKindKeywords ==
    EsprimaMode =>
        /\ (node.ty = "VarKind" /\ doc # NoDoc) => doc = DStr(Keyword(node.val))
        /\ (/\ out.ty = "VarKind"
            /\ doc.k = "str"
            /\ \E v \in VarKinds : Keyword(v) = doc.str)
               => out.res.r = "ok" /\ Keyword(out.res.val) = doc.str

\* C8: in the two-way configuration every Pat::Array value is read back equal
\* to what was written: same length, and every absent slot still absent at the
\* same index.
C8_ArrayHolesRoundTrip ==
    (/\ TwoWayMode
     /\ node.ty = "Pat"
     /\ node.val.variant = "Array"
     /\ out.ty = "Pat")
        => /\ out.res.r = "ok"
           /\ PatEq(out.res.val, node.val)
           /\ out.res.val.variant = "Array"
           /\ Len(out.res.val.elems) = Len(node.val.elems)
           /\ \A i \in 1..Len(node.val.elems) :
                  out.res.val.elems[i].some = node.val.elems[i].some

\* [a, , b] written and read back: three slots, the middle one absent
C8_Witness ==
    /\ TwoWayMode
    /\ node.ty = "Pat"
    /\ node.val.variant = "Array"
    /\ Len(node.val.elems) = 3
    /\ node.val.elems[1].some
    /\ ~node.val.elems[2].some
    /\ node.val.elems[3].some
    /\ doc.k = "map"
    /\ doc.fields["Array"].items[2] = DNull
    /\ out.ty = "Pat"
    /\ out.res.r = "ok"
    /\ Len(out.res.val.elems) = 3
    /\ ~out.res.val.elems[2].some

AllTwoWayTagged(f) ==
    \A ty \in NodeTypes :
        DerivesSerialize(ty, f) /\ DerivesDeserialize(ty, f) /\ ~UntaggedAttr(ty, f)

AllDecodeOnly(f) ==
    \A ty \in NodeTypes : ~DerivesSerialize(ty, f) /\ DerivesDeserialize(ty, f)

NoneEitherWay(f) ==
    \A ty \in NodeTypes : ~DerivesSerialize(ty, f) /\ ~DerivesDeserialize(ty, f)

\* C9: under every feature combination all node types are in one mode: all
\* two-way and tagged (serde without esprima), all decode-only (serde with
\* esprima), or none either way; no type is encodable or decodable while a type
\* it holds is not, and no type is untagged without a decoder.
C9_ModesUniform ==
    /\ \/ TwoWayMode /\ AllTwoWayTagged(features)
       \/ EsprimaMode /\ AllDecodeOnly(features)
       \/ NoneEitherWay(features)
    /\ \A ty \in NodeTypes : \A c \in Contains(ty) :
           /\ DerivesSerialize(ty, features) => DerivesSerialize(c, features)
           /\ DerivesDeserialize(ty, features) => DerivesDeserialize(c, features)
    /\ \A ty \in NodeTypes :
           UntaggedAttr(ty, features) => DerivesDeserialize(ty, features)

\* C10: under the untagged encoding no two Pat values of different variants
\* have the same document, and a document that is read back is read back as
\* the variant that was constructed.
C10_VariantsDistinguishable ==
    (EsprimaMode /\ node.ty = "Pat" /\ doc # NoDoc)
        => /\ \A q \in PatInputs :
                  q.variant # node.val.variant => EsprimaPat(q) # doc
           /\ (out.ty = "Pat" /\ out.res.r = "ok")
                  => out.res.val.variant = node.val.variant

====
